---------------------------- MODULE Spec2Model ----------------------------
(***************************************************************************)
(* A model of the multierror crate: ErrorSentinel, ErrorSentinelIter and   *)
(* the two value-and-errors containers Fallible and Outcome.               *)
(*                                                                         *)
(* One thread owns a few slots that hold the crate's objects.  Each action *)
(* is one call of a method of the crate (or one value going out of scope), *)
(* the destructors that run at the end of that call included.  The error   *)
(* type E is opaque to the crate, so an error is modelled by a fresh       *)
(* identity, an integer that no other error of the run has.                *)
(***************************************************************************)
EXTENDS Integers, Sequences, FiniteSets

---------------------------------------------------------------------------
(* Bounds of the model *)

\* Sentinels and containers the caller constructs over a whole run
MaxObjects == 2

\* Errors created over a whole run (identities 1..MaxErrors)
MaxErrors == 3

\* Values of type T are the integers 0..MaxValue
MaxValue == 1

\* No more values than MaxObjects are ever alive: one slot for each
NSentinels == MaxObjects

NContainers == MaxObjects

\* Longest error list handed to a constructor
MaxNewLen == MaxErrors - 1

SentinelIds == 1..NSentinels

ContainerIds == 1..NContainers

Values == 0..MaxValue

VARIABLES
  sentinels,    \* slot -> ErrorSentinel (or an empty slot)
  iter,         \* the ErrorSentinelIter slot
  containers,   \* slot -> Fallible / Outcome (or an empty slot)
  panicking,    \* std::thread::panicking() of the owning thread
  panicLog,     \* the panics raised so far, oldest first
  nextError,    \* identity of the next error the caller creates
  objects,      \* how many values the caller has constructed
  delivered,    \* errors given to a handle closure or yielded by next()
  discarded,    \* <<error, how>>: errors that ceased to exist undelivered
  last          \* the last call: its name, arguments and results

vars == <<sentinels, iter, containers, panicking, panicLog, nextError, objects,
          delivered, discarded, last>>

---------------------------------------------------------------------------
(* Option<Vec<E>> and Option<E> *)

None == [some |-> FALSE, vec |-> <<>>]

Some(v) == [some |-> TRUE, vec |-> v]

NoItem == [some |-> FALSE, val |-> 0]

SomeItem(e) == [some |-> TRUE, val |-> e]

Range(s) == {s[k] : k \in 1..Len(s)}

\* The n errors the caller creates next, in the order it creates them
FreshErrors(n) == [k \in 1..n |-> nextError + k - 1]

---------------------------------------------------------------------------
(* Panic messages *)

PanicSentinelDropped == [kind |-> "sentinel dropped without handling errors", errors |-> <<>>, left |-> 0, of |-> 0, msg |-> ""]

PanicIterDropped(left, of) == [kind |-> "sentinel iterator dropped without handling all errors", errors |-> <<>>, left |-> left, of |-> of, msg |-> ""]

PanicSentinelUnwrap(errors) == [kind |-> "unwrap on a sentinel with errors", errors |-> errors, left |-> 0, of |-> 0, msg |-> ""]

PanicOutcomeUnwrap(errors) == [kind |-> "unwrap on a Outcome with errors", errors |-> errors, left |-> 0, of |-> 0, msg |-> ""]

PanicExpect(msg) == [kind |-> "expect", errors |-> <<>>, left |-> 0, of |-> 0, msg |-> msg]

\* The messages a caller passes to expect
Messages == {"something went wrong", "no errors expected"}

---------------------------------------------------------------------------
(* Slots *)

EmptySentinel == [live |-> FALSE, obj |-> [errors |-> None, handled |-> FALSE], ety |-> "", peeked |-> FALSE, origin |-> ""]

\* source, yielded and taken record what the iterator was made from and what
\* next has returned so far
EmptyIter == [live |-> FALSE, obj |-> [original_len |-> 0, iter |-> <<>>], taken |-> 0, source |-> <<>>, yielded |-> <<>>]

EmptyContainer == [live |-> FALSE, kind |-> "", obj |-> [value |-> 0, errors |-> <<>>], shape |-> "", ety |-> ""]

\* What the argument other (a mutable reference to an ErrorCollector) can refer to
CollectorRefs == ({"sentinel"} \X SentinelIds) \cup ({"container"} \X ContainerIds)

\* The error types of the model: E, the type R that a map_errors closure maps
\* E to, and the uninhabited type !
ErrorTypes == {"E", "R", "!"}

\* An error value of the given type with the given identity
ErrorOfType(ety, id) == IF ety = "R" THEN 0 - id ELSE id

RefEty(ref) == IF ref[1] = "sentinel" THEN sentinels[ref[2]].ety ELSE containers[ref[2]].ety

RefLive(ref) == IF ref[1] = "sentinel" THEN sentinels[ref[2]].live ELSE containers[ref[2]].live

\* The implementor behind a collector reference: its type and its fields
Deref(ref) == IF ref[1] = "sentinel" THEN [kind |-> "ErrorSentinel", obj |-> sentinels[ref[2]].obj] ELSE [kind |-> containers[ref[2]].kind, obj |-> containers[ref[2]].obj]

\* The errors a collector holds
CollectorErrors(c) == IF c.kind = "ErrorSentinel" THEN c.obj.errors.vec ELSE c.obj.errors

\* The errors that cease to exist when a sentinel's fields are dropped
SentinelLeft(self) == IF self.errors.some THEN Range(self.errors.vec) ELSE {}

\* How an error ceased to exist: by ignore or safely_ignore, with a container
\* that went out of scope, or in a panic (in the call that panicked or while
\* the thread unwound)
Ways == {"ignore", "container drop", "panic"}

Lost(errors, how) == {<<e, how>> : e \in errors}

Init ==
  /\ sentinels = [s \in SentinelIds |-> EmptySentinel]
  /\ iter = EmptyIter
  /\ containers = [c \in ContainerIds |-> EmptyContainer]
  /\ panicking = FALSE
  /\ panicLog = <<>>
  /\ nextError = 1
  /\ objects = 0
  /\ delivered = {}
  /\ discarded = {}
  /\ last = [op |-> "init"]

\* A panic started by this call: the thread unwinds from now on
Raise(raised) ==
  /\ panicLog' = panicLog \o raised
  /\ panicking' = (panicking \/ raised # <<>>)

---------------------------------------------------------------------------
(* ErrorSentinel and ErrorSentinelIter: the methods *)

ErrorSentinel_new(errors) == [errors |-> Some(errors), handled |-> FALSE]

ErrorSentinel_new_empty == [errors |-> Some(<<>>), handled |-> FALSE]

ErrorSentinel_new_ok == [errors |-> Some(<<>>), handled |-> FALSE]

\* Mutant: the destructor lets a sentinel without errors go
ErrorSentinel_drop_only_errors(self, pk) == IF ~pk /\ ~self.handled /\ self.errors.vec # <<>> THEN <<PanicSentinelDropped>> ELSE <<>>

\* impl Drop for ErrorSentinel: the panics the destructor raises
ErrorSentinel_drop(self, pk) == IF ~pk /\ ~self.handled THEN <<PanicSentinelDropped>> ELSE <<>>

\* A push_error that takes the arrival of an error for its handling
ErrorSentinel_push_error_discharging(self, error) == [self EXCEPT !.errors = Some(Append(self.errors.vec, error)), !.handled = TRUE]

ErrorSentinel_push_error(self, error) == [self EXCEPT !.errors = Some(Append(self.errors.vec, error))]

\* Mutant: peek shows the errors newest first
ErrorSentinel_peek_reversed(self) == [k \in 1..Len(self.errors.vec) |-> self.errors.vec[Len(self.errors.vec) + 1 - k]]

ErrorSentinel_peek(self) == self.errors.vec

\* The closure the caller hands to handle: it counts the errors it is given
handler(errs) == Len(errs)

\* Mutant: handle forgets to mark the sentinel handled
ErrorSentinel_handle_unmarked(self) == [self |-> [self EXCEPT !.errors = None], calls |-> <<self.errors.vec>>, result |-> handler(self.errors.vec)]

\* A handle that takes the errors out before it calls the closure, which
\* then sees an empty list
ErrorSentinel_handle_taken(self) ==
  LET s1 == [self EXCEPT !.handled = TRUE, !.errors = None]
  IN [self |-> s1, calls |-> <<s1.errors.vec>>, result |-> handler(s1.errors.vec)]

ErrorSentinel_handle(self) ==
  LET s1 == [self EXCEPT !.handled = TRUE]
      errs == s1.errors.vec
      s2 == [s1 EXCEPT !.errors = None]
  IN [self |-> s2, calls |-> <<errs>>, result |-> handler(errs)]

\* An ignore that leaves the flag alone
ErrorSentinel_ignore_unmarked(self) == self

ErrorSentinel_ignore(self) == [self EXCEPT !.handled = TRUE]

ErrorSentinel_safely_ignore(self) == ErrorSentinel_ignore(self)

\* An into_errors_iter that measures the list after it took it out
ErrorSentinel_into_errors_iter_late_len(self) ==
  LET s1 == [self EXCEPT !.handled = TRUE]
      s2 == [s1 EXCEPT !.errors = None]
  IN [self |-> s2, iter |-> [original_len |-> 0, iter |-> s1.errors.vec]]

ErrorSentinel_into_errors_iter(self) ==
  LET s1 == [self EXCEPT !.handled = TRUE]
      original_len == Len(s1.errors.vec)
      s2 == [s1 EXCEPT !.errors = None]
  IN [self |-> s2, iter |-> [original_len |-> original_len, iter |-> s1.errors.vec]]

\* A next that takes the items from the back
ErrorSentinelIter_next_back(self) ==
  IF self.iter = <<>>
  THEN [self |-> self, item |-> NoItem]
  ELSE [self |-> [self EXCEPT !.iter = SubSeq(self.iter, 1, Len(self.iter) - 1)], item |-> SomeItem(self.iter[Len(self.iter)])]

ErrorSentinelIter_next(self) ==
  IF self.iter = <<>>
  THEN [self |-> self, item |-> NoItem]
  ELSE [self |-> [self EXCEPT !.iter = Tail(self.iter)], item |-> SomeItem(Head(self.iter))]

ErrorSentinelIter_len(self) == Len(self.iter)

\* Mutant: one item taken counts as handling
ErrorSentinelIter_is_handled_started(self) == Len(self.iter) < self.original_len \/ self.original_len = 0

\* An is_handled that wants to see progress: something must have been taken
ErrorSentinelIter_is_handled_progress(self) == ErrorSentinelIter_len(self) < self.original_len

ErrorSentinelIter_is_handled(self) == ErrorSentinelIter_len(self) = 0

\* Mutant: the destructor does not ask whether the thread is panicking
ErrorSentinelIter_drop_unconditional(self, pk) ==
  IF ~ErrorSentinelIter_is_handled(self)
  THEN <<PanicIterDropped(ErrorSentinelIter_len(self), self.original_len)>>
  ELSE <<>>

\* A destructor whose message has its two counts the wrong way round
ErrorSentinelIter_drop_swapped(self, pk) ==
  IF ~pk /\ ~ErrorSentinelIter_is_handled(self)
  THEN <<PanicIterDropped(self.original_len, ErrorSentinelIter_len(self))>>
  ELSE <<>>

\* impl Drop for ErrorSentinelIter: the panics the destructor raises
ErrorSentinelIter_drop(self, pk) ==
  IF ~pk /\ ~ErrorSentinelIter_is_handled(self)
  THEN <<PanicIterDropped(ErrorSentinelIter_len(self), self.original_len)>>
  ELSE <<>>

\* An unwrap that tests the list without marking the sentinel handled
ErrorSentinel_unwrap_unmarked(self) ==
  IF ErrorSentinel_peek(self) # <<>>
  THEN [self |-> [self EXCEPT !.errors = None], raised |-> <<PanicSentinelUnwrap(self.errors.vec)>>]
  ELSE [self |-> self, raised |-> <<>>]

ErrorSentinel_unwrap(self) ==
  LET s1 == [self EXCEPT !.handled = TRUE]
  IN IF ErrorSentinel_peek(s1) # <<>>
     THEN [self |-> [s1 EXCEPT !.errors = None], raised |-> <<PanicSentinelUnwrap(s1.errors.vec)>>]
     ELSE [self |-> s1, raised |-> <<>>]

\* An expect that marks the sentinel handled only when it found no errors
ErrorSentinel_expect_late_mark(self, msg) ==
  IF ErrorSentinel_peek(self) # <<>>
  THEN [self |-> self, raised |-> <<PanicExpect(msg)>>]
  ELSE [self |-> [self EXCEPT !.handled = TRUE], raised |-> <<>>]

ErrorSentinel_expect(self, msg) ==
  LET s1 == [self EXCEPT !.handled = TRUE]
  IN IF ErrorSentinel_peek(s1) # <<>>
     THEN [self |-> s1, raised |-> <<PanicExpect(msg)>>]
     ELSE [self |-> s1, raised |-> <<>>]

---------------------------------------------------------------------------
(* The closures the caller passes to the combinators *)

\* FnOnce(&mut OT, T) for integrate: add into the accumulator (wrapping), or overwrite it
IntegrateFuncs == {"add", "set"}

ApplyIntegrate(func, acc, x) == IF func = "add" THEN (acc + x) % (MaxValue + 1) ELSE x

\* FnOnce(T) -> R for map
MapFuncs == {"identity", "succ"}

ApplyMap(func, v) == IF func = "identity" THEN v ELSE (v + 1) % (MaxValue + 1)

\* FnMut(E) -> R for map_errors: the identity, or a closure that tags the error
\* (its sign) with the number of calls made to the closure before (its state)
MapErrorsFuncs == {"identity", "tag"}

ApplyMapErrors(func, e, calls) == IF func = "identity" THEN e ELSE 0 - (calls * (MaxErrors + 1) + e)

\* The error a (possibly tagged) error value stems from
Ident(e) == IF e < 0 THEN (0 - e) % (MaxErrors + 1) ELSE e

Idents(S) == {Ident(e) : e \in S}

---------------------------------------------------------------------------
(* ErrorCollector: push_error dispatches on the implementor *)

\* A push that puts the new error in front
Fallible_push_error_front(self, error) == [self EXCEPT !.errors = <<error>> \o self.errors]

Fallible_push_error(self, error) == [self EXCEPT !.errors = Append(self.errors, error)]

Outcome_push_error(self, error) == [self EXCEPT !.errors = Append(self.errors, error)]

push_error(c, error) ==
  CASE c.kind = "ErrorSentinel" -> [c EXCEPT !.obj = ErrorSentinel_push_error(c.obj, error)]
    [] c.kind = "Fallible" -> [c EXCEPT !.obj = Fallible_push_error(c.obj, error)]
    [] c.kind = "Outcome" -> [c EXCEPT !.obj = Outcome_push_error(c.obj, error)]

\* for error in errors.into_iter() { other.push_error(error) }
\* A loop that walks the errors from the back
RECURSIVE for_each_push_error_backwards(_, _)
for_each_push_error_backwards(errors, other) ==
  IF errors = <<>> THEN other
  ELSE for_each_push_error_backwards(SubSeq(errors, 1, Len(errors) - 1), push_error(other, errors[Len(errors)]))

RECURSIVE for_each_push_error(_, _)
for_each_push_error(errors, other) ==
  IF errors = <<>> THEN other
  ELSE for_each_push_error(Tail(errors), push_error(other, Head(errors)))

\* for error in iter { other.push_error(error) }, iter an ErrorSentinelIter
\* A loop that pushes every yielded error twice
RECURSIVE for_each_next_push_error_twice(_, _)
for_each_next_push_error_twice(it, other) ==
  LET n == ErrorSentinelIter_next(it)
  IN IF n.item.some
     THEN for_each_next_push_error_twice(n.self, push_error(push_error(other, n.item.val), n.item.val))
     ELSE [iter |-> n.self, other |-> other]

RECURSIVE for_each_next_push_error(_, _)
for_each_next_push_error(it, other) ==
  LET n == ErrorSentinelIter_next(it)
  IN IF n.item.some
     THEN for_each_next_push_error(n.self, push_error(other, n.item.val))
     ELSE [iter |-> n.self, other |-> other]

\* A propagate that moves the errors out without into_errors_iter, so that
\* nothing marks the sentinel handled
ErrorSentinel_propagate_unmarked(self, other, pk) ==
  LET d == for_each_push_error(self.errors.vec, other)
      raised == ErrorSentinel_drop([self EXCEPT !.errors = None], pk)
  IN [other |-> IF raised = <<>> THEN d ELSE other, raised |-> raised, left |-> {}]

\* ErrorSentinel::propagate; pk is panicking() when it is called
ErrorSentinel_propagate(self, other, pk) ==
  LET c == ErrorSentinel_into_errors_iter(self)
      raised0 == ErrorSentinel_drop(c.self, pk)
      d == for_each_next_push_error(c.iter, other)
      raised1 == ErrorSentinelIter_drop(d.iter, pk)
  IN IF raised0 # <<>>
     THEN [other |-> other, raised |-> raised0, left |-> Range(c.iter.iter)]
     ELSE [other |-> d.other, raised |-> raised1, left |-> Range(d.iter.iter)]

---------------------------------------------------------------------------
(* Fallible *)

Fallible_new(value) == [value |-> value, errors |-> <<>>]

Fallible_new_with_errors(value, errors) == [value |-> value, errors |-> errors]

Fallible_len_errors(self) == Len(self.errors)

Fallible_has_errors(self) == Fallible_len_errors(self) > 0

Fallible_is_success(self) == Fallible_len_errors(self) = 0

Fallible_propagate(self, other) == [other |-> for_each_push_error(self.errors, other), value |-> self.value]

\* An integrate that puts the source's errors in front of the destination's
Fallible_integrate_errors_first(self, other, func) ==
  LET o1 == [other EXCEPT !.value = ApplyIntegrate(func, other.value, self.value), !.errors = <<>>]
      o2 == for_each_push_error(self.errors \o other.errors, [kind |-> "Fallible", obj |-> o1])
  IN [other |-> o2.obj, calls |-> <<<<other.value, self.value>>>>]

Fallible_integrate(self, other, func) ==
  LET o1 == [other EXCEPT !.value = ApplyIntegrate(func, other.value, self.value)]
      o2 == for_each_push_error(self.errors, [kind |-> "Fallible", obj |-> o1])
  IN [other |-> o2.obj, calls |-> <<<<other.value, self.value>>>>]

\* Iterator::chain followed by collect
chain_next(it) ==
  IF it.a # <<>> THEN [it |-> [it EXCEPT !.a = Tail(it.a)], item |-> SomeItem(Head(it.a))]
  ELSE IF it.b # <<>> THEN [it |-> [it EXCEPT !.b = Tail(it.b)], item |-> SomeItem(Head(it.b))]
  ELSE [it |-> it, item |-> NoItem]

RECURSIVE collect_chain(_, _)
collect_chain(it, acc) ==
  LET n == chain_next(it)
  IN IF n.item.some THEN collect_chain(n.it, Append(acc, n.item.val)) ELSE acc

Fallible_zip(self, other) ==
  Fallible_new_with_errors(<<self.value, other.value>>, collect_chain([a |-> self.errors, b |-> other.errors], <<>>))

\* A map that keeps the value and forgets the errors
Fallible_map_without_errors(self, func) == Fallible_new(ApplyMap(func, self.value))

Fallible_map(self, func) == Fallible_new_with_errors(ApplyMap(func, self.value), self.errors)

\* A collect that walks the errors from the back and puts each result in front
RECURSIVE collect_map_backwards(_, _, _)
collect_map_backwards(errors, func, acc) ==
  IF errors = <<>> THEN acc
  ELSE collect_map_backwards(SubSeq(errors, 1, Len(errors) - 1), func, <<ApplyMapErrors(func, errors[Len(errors)], Len(acc))>> \o acc)

\* Iterator::map followed by collect
RECURSIVE collect_map(_, _, _)
collect_map(errors, func, acc) ==
  IF errors = <<>> THEN acc
  ELSE collect_map(Tail(errors), func, Append(acc, ApplyMapErrors(func, Head(errors), Len(acc))))

Fallible_map_errors(self, func) == Fallible_new_with_errors(self.value, collect_map(self.errors, func, <<>>))

Fallible_finalize(self) == [value |-> self.value, sentinel |-> ErrorSentinel_new(self.errors)]

\* for item in iter { items.push(item.value); errors.extend(item.errors) }
RECURSIVE Fallible_from_iter_loop(_, _, _)
Fallible_from_iter_loop(it, items, errors) ==
  IF it = <<>> THEN [items |-> items, errors |-> errors]
  ELSE Fallible_from_iter_loop(Tail(it), Append(items, Head(it).value), errors \o Head(it).errors)

Fallible_from_iter(it) ==
  LET r == Fallible_from_iter_loop(it, <<>>, <<>>)
  IN Fallible_new_with_errors(r.items, r.errors)

\* An into_fallible that hands the errors over last to first
ErrorSentinel_into_fallible_reversed(self, value, pk) ==
  LET f == Fallible_new(value)
      vec == self.errors.vec
      back == [self EXCEPT !.errors = Some([k \in 1..Len(vec) |-> vec[Len(vec) + 1 - k]])]
      r == ErrorSentinel_propagate(back, [kind |-> "Fallible", obj |-> f], pk)
  IN [fallible |-> r.other.obj, raised |-> r.raised, left |-> r.left]

\* ErrorSentinel::into_fallible; pk is panicking() when it is called
ErrorSentinel_into_fallible(self, value, pk) ==
  LET f == Fallible_new(value)
      r == ErrorSentinel_propagate(self, [kind |-> "Fallible", obj |-> f], pk)
  IN [fallible |-> r.other.obj, raised |-> r.raised, left |-> r.left]

---------------------------------------------------------------------------
(* Outcome *)

Outcome_new(value) == [value |-> value, errors |-> <<>>]

Outcome_new_with_errors(value, errors) == [value |-> value, errors |-> errors]

Outcome_len_errors(self) == Len(self.errors)

\* A has_errors that wants more than one error
Outcome_has_errors_several(self) == Outcome_len_errors(self) > 1

Outcome_has_errors(self) == Outcome_len_errors(self) > 0

Outcome_is_success(self) == Outcome_len_errors(self) = 0

Outcome_propagate(self, other) == [other |-> for_each_push_error(self.errors, other), value |-> self.value]

Outcome_integrate(self, other, func) ==
  LET o1 == [other EXCEPT !.value = ApplyIntegrate(func, other.value, self.value)]
      o2 == for_each_push_error(self.errors, [kind |-> "Outcome", obj |-> o1])
  IN [other |-> o2.obj, calls |-> <<<<other.value, self.value>>>>]

\* A zip that chains the other operand's errors first
Outcome_zip_swapped(self, other) ==
  Outcome_new_with_errors(<<self.value, other.value>>, collect_chain([a |-> other.errors, b |-> self.errors], <<>>))

Outcome_zip(self, other) ==
  Outcome_new_with_errors(<<self.value, other.value>>, collect_chain([a |-> self.errors, b |-> other.errors], <<>>))

\* A map that carries the value over without applying the closure
Outcome_map_value_kept(self, func) == Outcome_new_with_errors(self.value, self.errors)

Outcome_map(self, func) == Outcome_new_with_errors(ApplyMap(func, self.value), self.errors)

Outcome_map_errors(self, func) == Outcome_new_with_errors(self.value, collect_map(self.errors, func, <<>>))

\* An into_errors that wraps a fresh list instead of the Outcome's
Outcome_into_errors_new_empty(self) == ErrorSentinel_new_empty

Outcome_into_errors(self) == ErrorSentinel_new(self.errors)

\* A finalize whose sentinel needs no handling when there are no errors
Outcome_finalize_lenient(self) ==
  [value |-> self.value, sentinel |-> [ErrorSentinel_new(self.errors) EXCEPT !.handled = (self.errors = <<>>)]]

Outcome_finalize(self) == [value |-> self.value, sentinel |-> ErrorSentinel_new(self.errors)]

\* The value returned, or the panic raised
Outcome_unwrap(self) ==
  IF Outcome_is_success(self)
  THEN [ok |-> TRUE, value |-> self.value, raised |-> <<>>]
  ELSE [ok |-> FALSE, value |-> self.value, raised |-> <<PanicOutcomeUnwrap(self.errors)>>]

\* An expect that delegates to unwrap and so reports the errors, not msg
Outcome_expect_as_unwrap(self, msg) == Outcome_unwrap(self)

Outcome_expect(self, msg) ==
  IF Outcome_is_success(self)
  THEN [ok |-> TRUE, value |-> self.value, raised |-> <<>>]
  ELSE [ok |-> FALSE, value |-> self.value, raised |-> <<PanicExpect(msg)>>]

\* An into_result that takes the failure path whatever the error count
Outcome_into_result_always_err(self) == [ok |-> FALSE, value |-> self.value, sentinel |-> Outcome_into_errors(self)]

\* Result<T, ErrorSentinel<E>>
Outcome_into_result(self) ==
  IF Outcome_is_success(self)
  THEN [ok |-> TRUE, value |-> self.value, sentinel |-> EmptySentinel.obj]
  ELSE [ok |-> FALSE, value |-> self.value, sentinel |-> Outcome_into_errors(self)]

\* A loop that puts each item's errors in front of those collected so far
RECURSIVE Outcome_from_iter_loop_prepend(_, _, _)
Outcome_from_iter_loop_prepend(it, items, errors) ==
  IF it = <<>> THEN [items |-> items, errors |-> errors]
  ELSE Outcome_from_iter_loop_prepend(Tail(it), Append(items, Head(it).value), Head(it).errors \o errors)

RECURSIVE Outcome_from_iter_loop(_, _, _)
Outcome_from_iter_loop(it, items, errors) ==
  IF it = <<>> THEN [items |-> items, errors |-> errors]
  ELSE Outcome_from_iter_loop(Tail(it), Append(items, Head(it).value), errors \o Head(it).errors)

Outcome_from_iter(it) ==
  LET r == Outcome_from_iter_loop(it, <<>>, <<>>)
  IN Outcome_new_with_errors(r.items, r.errors)

---------------------------------------------------------------------------
(* Dispatch on the container type *)

Kinds == {"Fallible", "Outcome"}

new(kind, value) == IF kind = "Fallible" THEN Fallible_new(value) ELSE Outcome_new(value)

new_with_errors(kind, value, errors) == IF kind = "Fallible" THEN Fallible_new_with_errors(value, errors) ELSE Outcome_new_with_errors(value, errors)

propagate(kind, self, other) == IF kind = "Fallible" THEN Fallible_propagate(self, other) ELSE Outcome_propagate(self, other)

integrate(kind, self, other, func) == IF kind = "Fallible" THEN Fallible_integrate(self, other, func) ELSE Outcome_integrate(self, other, func)

zip(kind, self, other) == IF kind = "Fallible" THEN Fallible_zip(self, other) ELSE Outcome_zip(self, other)

map(kind, self, func) == IF kind = "Fallible" THEN Fallible_map(self, func) ELSE Outcome_map(self, func)

map_errors(kind, self, func) == IF kind = "Fallible" THEN Fallible_map_errors(self, func) ELSE Outcome_map_errors(self, func)

finalize(kind, self) == IF kind = "Fallible" THEN Fallible_finalize(self) ELSE Outcome_finalize(self)

from_iter(kind, it) == IF kind = "Fallible" THEN Fallible_from_iter(it) ELSE Outcome_from_iter(it)

---------------------------------------------------------------------------
(* build *)

\* ErrorSentinel::empty, which build calls: an empty internal sentinel
ErrorSentinel_empty == [errors |-> Some(<<>>), handled |-> FALSE]

\* ErrorSentinel::into_outcome, which Outcome::build calls: wraps the final
\* value with whatever errors accumulated
ErrorSentinel_into_outcome(self, value, pk) ==
  LET o == Outcome_new(value)
      r == ErrorSentinel_propagate(self, [kind |-> "Outcome", obj |-> o], pk)
  IN [outcome |-> r.other.obj, raised |-> r.raised, left |-> r.left]

\* func(&mut sentinel): the closure pushes errors of its own and propagates
\* the errors of sub-computations, step by step, then returns its value
RECURSIVE call_func(_, _)
call_func(steps, sentinel) ==
  IF steps = <<>> THEN sentinel
  ELSE LET step == Head(steps)
           errs == [kind |-> "ErrorSentinel", obj |-> sentinel]
       IN call_func(Tail(steps),
                    IF step.do = "push_error"
                    THEN push_error(errs, step.error).obj
                    ELSE propagate(step.sub.kind, step.sub.obj, errs).other.obj)

\* A build that returns the value in a fresh Fallible and lets the sentinel go
Fallible_build_forgetful(func, pk) ==
  LET sentinel == call_func(func.steps, ErrorSentinel_empty)
  IN [out |-> Fallible_new(func.value), raised |-> ErrorSentinel_drop(sentinel, pk), left |-> SentinelLeft(sentinel)]

Fallible_build(func, pk) ==
  LET sentinel == call_func(func.steps, ErrorSentinel_empty)
      r == ErrorSentinel_into_fallible(sentinel, func.value, pk)
  IN [out |-> r.fallible, raised |-> r.raised, left |-> r.left]

Outcome_build(func, pk) ==
  LET sentinel == call_func(func.steps, ErrorSentinel_empty)
      r == ErrorSentinel_into_outcome(sentinel, func.value, pk)
  IN [out |-> r.outcome, raised |-> r.raised, left |-> r.left]

build(kind, func, pk) == IF kind = "Fallible" THEN Fallible_build(func, pk) ELSE Outcome_build(func, pk)

---------------------------------------------------------------------------
(* Actions: ErrorSentinel *)

\* Neither Fallible nor Outcome implements Drop: a container that goes out of
\* scope has its fields dropped, the value and the vector of errors, and that
\* raises nothing whether or not the thread is panicking
Fallible_drop(self, pk) == <<>>

\* A destructor like the sentinel's: errors left in the container are a panic
Outcome_drop_with_obligation(self, pk) == IF ~pk /\ self.errors # <<>> THEN <<PanicSentinelDropped>> ELSE <<>>

Outcome_drop(self, pk) == <<>>

drop_in_place(kind, self, pk) == IF kind = "Fallible" THEN Fallible_drop(self, pk) ELSE Outcome_drop(self, pk)

\* New values go to the lowest empty slot
FreeSentinel(s) == ~sentinels[s].live /\ \A t \in SentinelIds : t < s => sentinels[t].live

FreeContainer(c) == ~containers[c].live /\ \A d \in ContainerIds : d < c => containers[d].live

\* The slots after the collector behind ref became c
SentinelsAfter(ref, c, base) == IF ref[1] = "sentinel" THEN [base EXCEPT ![ref[2]].obj = c.obj] ELSE base

ContainersAfter(ref, c, base) == IF ref[1] = "container" THEN [base EXCEPT ![ref[2]].obj = c.obj] ELSE base

LiveContainer(kind, obj, shape, ety) == [live |-> TRUE, kind |-> kind, obj |-> obj, shape |-> shape, ety |-> ety]

\* origin names the call that returned the sentinel
LiveSentinel(obj, ety, origin) == [live |-> TRUE, obj |-> obj, ety |-> ety, peeked |-> FALSE, origin |-> origin]

\* ErrorSentinel::new(errors), the caller making n errors for it
SentinelNew(s, n) ==
  /\ ~panicking
  /\ objects < MaxObjects
  /\ objects' = objects + 1
  /\ FreeSentinel(s)
  /\ nextError + n - 1 <= MaxErrors
  /\ sentinels' = [sentinels EXCEPT ![s] = LiveSentinel(ErrorSentinel_new(FreshErrors(n)), "E", "ErrorSentinel::new")]
  /\ nextError' = nextError + n
  /\ last' = [op |-> "ErrorSentinel::new", raised |-> <<>>, s |-> s]
  /\ UNCHANGED <<iter, containers, panicking, panicLog, delivered, discarded>>

SentinelNewEmpty(s) ==
  /\ ~panicking
  /\ objects < MaxObjects
  /\ objects' = objects + 1
  /\ FreeSentinel(s)
  /\ sentinels' = [sentinels EXCEPT ![s] = LiveSentinel(ErrorSentinel_new_empty, "E", "ErrorSentinel::new_empty")]
  /\ last' = [op |-> "ErrorSentinel::new_empty", raised |-> <<>>, s |-> s]
  /\ UNCHANGED <<iter, containers, panicking, panicLog, nextError, delivered, discarded>>

\* ErrorSentinel<!>::new_ok
SentinelNewOk(s) ==
  /\ ~panicking
  /\ objects < MaxObjects
  /\ objects' = objects + 1
  /\ FreeSentinel(s)
  /\ sentinels' = [sentinels EXCEPT ![s] = LiveSentinel(ErrorSentinel_new_ok, "!", "ErrorSentinel::new_ok")]
  /\ last' = [op |-> "ErrorSentinel::new_ok", raised |-> <<>>, s |-> s]
  /\ UNCHANGED <<iter, containers, panicking, panicLog, nextError, delivered, discarded>>

\* push_error on a sentinel; no value of type ! exists to push
SentinelPushError(s) ==
  /\ ~panicking
  /\ sentinels[s].live
  /\ sentinels[s].ety # "!"
  /\ nextError <= MaxErrors
  /\ sentinels' = [sentinels EXCEPT ![s].obj = ErrorSentinel_push_error(sentinels[s].obj, ErrorOfType(sentinels[s].ety, nextError))]
  /\ nextError' = nextError + 1
  /\ last' = [op |-> "ErrorSentinel::push_error", raised |-> <<>>, dest |-> <<"sentinel", s>>, error |-> ErrorOfType(sentinels[s].ety, nextError), args |-> <<Deref(<<"sentinel", s>>)>>]
  /\ UNCHANGED <<objects, iter, containers, panicking, panicLog, delivered, discarded>>

Peek(s) ==
  /\ ~panicking
  /\ sentinels[s].live
  /\ sentinels' = [sentinels EXCEPT ![s].peeked = TRUE]
  /\ last' = [op |-> "ErrorSentinel::peek", raised |-> <<>>, s |-> s, result |-> ErrorSentinel_peek(sentinels[s].obj)]
  /\ UNCHANGED <<objects, iter, containers, panicking, panicLog, nextError, delivered, discarded>>

\* handle consumes self: the sentinel is dropped when the call returns
Handle(s) ==
  /\ ~panicking
  /\ sentinels[s].live
  /\ LET r == ErrorSentinel_handle(sentinels[s].obj)
         raised == ErrorSentinel_drop(r.self, panicking)
     IN /\ sentinels' = [sentinels EXCEPT ![s] = EmptySentinel]
        /\ delivered' = delivered \cup Range(r.calls[1])
        /\ discarded' = discarded \cup Lost(SentinelLeft(r.self), IF raised = <<>> THEN "ignore" ELSE "panic")
        /\ Raise(raised)
        /\ last' = [op |-> "ErrorSentinel::handle", raised |-> raised, handled |-> r.self.handled, calls |-> r.calls, result |-> r.result, errors |-> sentinels[s].obj.errors.vec]
  /\ UNCHANGED <<objects, iter, containers, nextError>>

Ignore(s) ==
  /\ ~panicking
  /\ sentinels[s].live
  /\ LET self == ErrorSentinel_ignore(sentinels[s].obj)
         raised == ErrorSentinel_drop(self, panicking)
     IN /\ sentinels' = [sentinels EXCEPT ![s] = EmptySentinel]
        /\ discarded' = discarded \cup Lost(SentinelLeft(self), IF raised = <<>> THEN "ignore" ELSE "panic")
        /\ Raise(raised)
        /\ last' = [op |-> "ErrorSentinel::ignore", raised |-> raised, handled |-> self.handled]
  /\ UNCHANGED <<objects, iter, containers, nextError, delivered>>

\* Only ErrorSentinel<!> has safely_ignore
SafelyIgnore(s) ==
  /\ ~panicking
  /\ sentinels[s].live
  /\ sentinels[s].ety = "!"
  /\ LET self == ErrorSentinel_safely_ignore(sentinels[s].obj)
         raised == ErrorSentinel_drop(self, panicking)
     IN /\ sentinels' = [sentinels EXCEPT ![s] = EmptySentinel]
        /\ discarded' = discarded \cup Lost(SentinelLeft(self), IF raised = <<>> THEN "ignore" ELSE "panic")
        /\ Raise(raised)
        /\ last' = [op |-> "ErrorSentinel::safely_ignore", raised |-> raised, handled |-> self.handled]
  /\ UNCHANGED <<objects, iter, containers, nextError, delivered>>

\* unwrap: its own panic first, then the destructor of self while unwinding
SentinelUnwrap(s) ==
  /\ ~panicking
  /\ sentinels[s].live
  /\ LET r == ErrorSentinel_unwrap(sentinels[s].obj)
         raised == r.raised \o ErrorSentinel_drop(r.self, panicking \/ r.raised # <<>>)
     IN /\ sentinels' = [sentinels EXCEPT ![s] = EmptySentinel]
        /\ discarded' = discarded \cup Lost(SentinelLeft(sentinels[s].obj), "panic")
        /\ Raise(raised)
        /\ last' = [op |-> "ErrorSentinel::unwrap", raised |-> raised, handled |-> r.self.handled, errors |-> sentinels[s].obj.errors.vec]
  /\ UNCHANGED <<objects, iter, containers, nextError, delivered>>

SentinelExpect(s, msg) ==
  /\ ~panicking
  /\ sentinels[s].live
  /\ LET r == ErrorSentinel_expect(sentinels[s].obj, msg)
         raised == r.raised \o ErrorSentinel_drop(r.self, panicking \/ r.raised # <<>>)
     IN /\ sentinels' = [sentinels EXCEPT ![s] = EmptySentinel]
        /\ discarded' = discarded \cup Lost(SentinelLeft(sentinels[s].obj), "panic")
        /\ Raise(raised)
        /\ last' = [op |-> "ErrorSentinel::expect", raised |-> raised, handled |-> r.self.handled, errors |-> sentinels[s].obj.errors.vec, msg |-> msg]
  /\ UNCHANGED <<objects, iter, containers, nextError, delivered>>

\* The collector has the error type of the sentinel
SentinelPropagate(s, ref) ==
  /\ ~panicking
  /\ sentinels[s].live
  /\ ref # <<"sentinel", s>>
  /\ RefLive(ref)
  /\ RefEty(ref) = sentinels[s].ety
  /\ LET r == ErrorSentinel_propagate(sentinels[s].obj, Deref(ref), panicking)
     IN /\ sentinels' = SentinelsAfter(ref, r.other, [sentinels EXCEPT ![s] = EmptySentinel])
        /\ containers' = ContainersAfter(ref, r.other, containers)
        /\ discarded' = discarded \cup Lost(r.left, "panic")
        /\ Raise(r.raised)
        /\ last' = [op |-> "ErrorSentinel::propagate", raised |-> r.raised, handled |-> ErrorSentinel_into_errors_iter(sentinels[s].obj).self.handled, dest |-> ref, args |-> <<Deref(<<"sentinel", s>>), Deref(ref)>>]
  /\ UNCHANGED <<objects, iter, nextError, delivered>>

IntoFallible(s, value, c) ==
  /\ ~panicking
  /\ sentinels[s].live
  /\ FreeContainer(c)
  /\ LET r == ErrorSentinel_into_fallible(sentinels[s].obj, value, panicking)
     IN /\ sentinels' = [sentinels EXCEPT ![s] = EmptySentinel]
        /\ containers' = [containers EXCEPT ![c] = LiveContainer("Fallible", r.fallible, "scalar", sentinels[s].ety)]
        /\ discarded' = discarded \cup Lost(r.left, "panic")
        /\ Raise(r.raised)
        /\ last' = [op |-> "ErrorSentinel::into_fallible", raised |-> r.raised, handled |-> ErrorSentinel_into_errors_iter(sentinels[s].obj).self.handled, value |-> value, out |-> c, args |-> <<Deref(<<"sentinel", s>>)>>]
  /\ UNCHANGED <<objects, iter, nextError, delivered>>

IntoErrorsIter(s) ==
  /\ ~panicking
  /\ sentinels[s].live
  /\ ~iter.live
  /\ LET r == ErrorSentinel_into_errors_iter(sentinels[s].obj)
         raised == ErrorSentinel_drop(r.self, panicking)
     IN /\ sentinels' = [sentinels EXCEPT ![s] = EmptySentinel]
        /\ iter' = [live |-> TRUE, obj |-> r.iter, taken |-> 0, source |-> sentinels[s].obj.errors.vec, yielded |-> <<>>]
        /\ discarded' = discarded \cup Lost(SentinelLeft(r.self), "panic")
        /\ Raise(raised)
        /\ last' = [op |-> "ErrorSentinel::into_errors_iter", raised |-> raised, handled |-> r.self.handled, args |-> <<Deref(<<"sentinel", s>>)>>]
  /\ UNCHANGED <<objects, containers, nextError, delivered>>

\* A sentinel goes out of scope with no disposal method called on it:
\* at the end of its scope, or while the thread unwinds
DropSentinel(s) ==
  /\ sentinels[s].live
  /\ LET raised == ErrorSentinel_drop(sentinels[s].obj, panicking)
     IN /\ sentinels' = [sentinels EXCEPT ![s] = EmptySentinel]
        /\ discarded' = discarded \cup Lost(SentinelLeft(sentinels[s].obj), "panic")
        /\ Raise(raised)
        /\ last' = [op |-> "drop ErrorSentinel", raised |-> raised, pk |-> panicking, self |-> sentinels[s]]
  /\ UNCHANGED <<objects, iter, containers, nextError, delivered>>

---------------------------------------------------------------------------
(* Actions: ErrorSentinelIter *)

IterNext ==
  /\ ~panicking
  /\ iter.live
  /\ LET r == ErrorSentinelIter_next(iter.obj)
     IN /\ iter' = [iter EXCEPT !.obj = r.self,
                                !.taken = IF r.item.some THEN iter.taken + 1 ELSE iter.taken,
                                !.yielded = IF r.item.some THEN Append(iter.yielded, r.item.val) ELSE iter.yielded]
        /\ delivered' = IF r.item.some THEN delivered \cup {r.item.val} ELSE delivered
        /\ last' = [op |-> "ErrorSentinelIter::next", raised |-> <<>>, item |-> r.item]
  /\ UNCHANGED <<objects, sentinels, containers, panicking, panicLog, nextError, discarded>>

DropIter ==
  /\ iter.live
  /\ LET raised == ErrorSentinelIter_drop(iter.obj, panicking)
     IN /\ iter' = EmptyIter
        /\ discarded' = discarded \cup Lost(Range(iter.obj.iter), "panic")
        /\ Raise(raised)
        /\ last' = [op |-> "drop ErrorSentinelIter", raised |-> raised, pk |-> panicking, self |-> iter]
  /\ UNCHANGED <<objects, sentinels, containers, nextError, delivered>>

---------------------------------------------------------------------------
(* Actions: Fallible and Outcome *)

\* The combinators that compute with values are instantiated at T = integer
Scalar(c) == containers[c].live /\ containers[c].shape = "scalar"

New(kind, c, value) ==
  /\ ~panicking
  /\ objects < MaxObjects
  /\ objects' = objects + 1
  /\ FreeContainer(c)
  /\ containers' = [containers EXCEPT ![c] = LiveContainer(kind, new(kind, value), "scalar", "E")]
  /\ last' = [op |-> "new", raised |-> <<>>, out |-> c, kind |-> kind, value |-> value]
  /\ UNCHANGED <<sentinels, iter, panicking, panicLog, nextError, delivered, discarded>>

NewWithErrors(kind, c, value, n) ==
  /\ ~panicking
  /\ objects < MaxObjects
  /\ objects' = objects + 1
  /\ FreeContainer(c)
  /\ nextError + n - 1 <= MaxErrors
  /\ containers' = [containers EXCEPT ![c] = LiveContainer(kind, new_with_errors(kind, value, FreshErrors(n)), "scalar", "E")]
  /\ nextError' = nextError + n
  /\ last' = [op |-> "new_with_errors", raised |-> <<>>, out |-> c, kind |-> kind, value |-> value, errors |-> FreshErrors(n)]
  /\ UNCHANGED <<sentinels, iter, panicking, panicLog, delivered, discarded>>

PushError(c) ==
  /\ ~panicking
  /\ containers[c].live
  /\ containers[c].ety # "!"
  /\ nextError <= MaxErrors
  /\ containers' = [containers EXCEPT ![c].obj = push_error(Deref(<<"container", c>>), ErrorOfType(containers[c].ety, nextError)).obj]
  /\ nextError' = nextError + 1
  /\ last' = [op |-> "push_error", raised |-> <<>>, dest |-> <<"container", c>>, error |-> ErrorOfType(containers[c].ety, nextError), args |-> <<Deref(<<"container", c>>)>>]
  /\ UNCHANGED <<objects, sentinels, iter, panicking, panicLog, delivered, discarded>>

\* propagate consumes self and returns its value
Propagate(c, ref) ==
  /\ ~panicking
  /\ containers[c].live
  /\ ref # <<"container", c>>
  /\ RefLive(ref)
  /\ RefEty(ref) = containers[c].ety
  /\ LET r == propagate(containers[c].kind, containers[c].obj, Deref(ref))
     IN /\ sentinels' = SentinelsAfter(ref, r.other, sentinels)
        /\ containers' = ContainersAfter(ref, r.other, [containers EXCEPT ![c] = EmptyContainer])
        /\ last' = [op |-> "propagate", raised |-> <<>>, dest |-> ref, result |-> r.value, args |-> <<Deref(<<"container", c>>), Deref(ref)>>]
  /\ UNCHANGED <<objects, iter, panicking, panicLog, nextError, delivered, discarded>>

Integrate(c, d, func) ==
  /\ ~panicking
  /\ c # d
  /\ Scalar(c)
  /\ Scalar(d)
  /\ containers[c].kind = containers[d].kind
  /\ containers[c].ety = containers[d].ety
  /\ LET r == integrate(containers[c].kind, containers[c].obj, containers[d].obj, func)
     IN /\ containers' = [containers EXCEPT ![c] = EmptyContainer, ![d].obj = r.other]
        /\ last' = [op |-> "integrate", raised |-> <<>>, dest |-> <<"container", d>>, calls |-> r.calls, func |-> func, args |-> <<Deref(<<"container", c>>), Deref(<<"container", d>>)>>]
  /\ UNCHANGED <<objects, sentinels, iter, panicking, panicLog, nextError, delivered, discarded>>

\* a.zip(b); the result takes the slot of a
Zip(a, b) ==
  /\ ~panicking
  /\ a # b
  /\ Scalar(a)
  /\ Scalar(b)
  /\ containers[a].kind = containers[b].kind
  /\ containers[a].ety = containers[b].ety
  /\ containers' = [containers EXCEPT ![a] = LiveContainer(containers[a].kind, zip(containers[a].kind, containers[a].obj, containers[b].obj), "pair", containers[a].ety), ![b] = EmptyContainer]
  /\ last' = [op |-> "zip", raised |-> <<>>, out |-> a, args |-> <<Deref(<<"container", a>>), Deref(<<"container", b>>)>>]
  /\ UNCHANGED <<objects, sentinels, iter, panicking, panicLog, nextError, delivered, discarded>>

Map(c, func) ==
  /\ ~panicking
  /\ Scalar(c)
  /\ containers' = [containers EXCEPT ![c].obj = map(containers[c].kind, containers[c].obj, func)]
  /\ last' = [op |-> "map", raised |-> <<>>, out |-> c, func |-> func, args |-> <<Deref(<<"container", c>>)>>]
  /\ UNCHANGED <<objects, sentinels, iter, panicking, panicLog, nextError, delivered, discarded>>

\* The tagging closure has type E -> R (or ! -> R)
MapErrors(c, func) ==
  /\ ~panicking
  /\ containers[c].live
  /\ func = "tag" => containers[c].ety # "R"
  /\ containers' = [containers EXCEPT ![c].obj = map_errors(containers[c].kind, containers[c].obj, func), ![c].ety = IF func = "tag" THEN "R" ELSE containers[c].ety]
  /\ last' = [op |-> "map_errors", raised |-> <<>>, out |-> c, func |-> func, args |-> <<Deref(<<"container", c>>)>>]
  /\ UNCHANGED <<objects, sentinels, iter, panicking, panicLog, nextError, delivered, discarded>>

Finalize(c, s) ==
  /\ ~panicking
  /\ containers[c].live
  /\ FreeSentinel(s)
  /\ LET r == finalize(containers[c].kind, containers[c].obj)
     IN /\ containers' = [containers EXCEPT ![c] = EmptyContainer]
        /\ sentinels' = [sentinels EXCEPT ![s] = LiveSentinel(r.sentinel, containers[c].ety, "finalize")]
        /\ last' = [op |-> "finalize", raised |-> <<>>, value |-> r.value, s |-> s, args |-> <<Deref(<<"container", c>>)>>]
  /\ UNCHANGED <<objects, iter, panicking, panicLog, nextError, delivered, discarded>>

\* The sequences of distinct container slots of length n
Orders(n) == {o \in [1..n -> ContainerIds] : \A i, j \in 1..n : i # j => o[i] # o[j]}

\* iter.collect() over the containers in the slots order[1], order[2], ...;
\* the result goes to the lowest slot that is empty afterwards.  Collecting
\* an empty sequence constructs a value out of nothing
FromIter(kind, ety, order, d) ==
  /\ ~panicking
  /\ \A i \in 1..Len(order) : Scalar(order[i]) /\ containers[order[i]].kind = kind /\ containers[order[i]].ety = ety
  /\ order = <<>> => objects < MaxObjects
  /\ objects' = IF order = <<>> THEN objects + 1 ELSE objects
  /\ LET rest == [c \in ContainerIds |-> IF c \in Range(order) THEN EmptyContainer ELSE containers[c]]
         items == [i \in 1..Len(order) |-> containers[order[i]].obj]
     IN /\ ~rest[d].live
        /\ \A e \in ContainerIds : e < d => rest[e].live
        /\ containers' = [rest EXCEPT ![d] = LiveContainer(kind, from_iter(kind, items), "list", ety)]
        /\ last' = [op |-> "from_iter", raised |-> <<>>, out |-> d, args |-> [i \in 1..Len(order) |-> Deref(<<"container", order[i]>>)]]
  /\ UNCHANGED <<sentinels, iter, panicking, panicLog, nextError, delivered, discarded>>

\* What a step of the closure handed to build does: push an error of its own,
\* or propagate a container it owns into the sentinel
BuildSteps == {<<"push_error", 0>>} \cup {<<"propagate", c>> : c \in ContainerIds}

\* The number of push_error steps among the first i steps
Pushes(script, i) == Cardinality({k \in 1..i : script[k][1] = "push_error"})

\* build(func) with func the closure that takes the steps of script and
\* returns value; the containers the closure propagates are moved into it
Build(kind, script, value, d) ==
  /\ ~panicking
  /\ objects < MaxObjects
  /\ \A i \in 1..Len(script) : script[i][1] = "propagate" =>
       /\ containers[script[i][2]].live
       /\ containers[script[i][2]].ety = "E"
       /\ \A j \in 1..Len(script) : script[j] = script[i] => j = i
  /\ nextError + Pushes(script, Len(script)) - 1 <= MaxErrors
  /\ LET subs == {script[i][2] : i \in {k \in 1..Len(script) : script[k][1] = "propagate"}}
         rest == [c \in ContainerIds |-> IF c \in subs THEN EmptyContainer ELSE containers[c]]
         steps == [i \in 1..Len(script) |->
                     IF script[i][1] = "push_error"
                     THEN [do |-> "push_error", error |-> nextError + Pushes(script, i - 1)]
                     ELSE [do |-> "propagate", sub |-> Deref(<<"container", script[i][2]>>)]]
         r == build(kind, [steps |-> steps, value |-> value], panicking)
     IN /\ objects' = objects + 1
        /\ ~rest[d].live
        /\ \A e \in ContainerIds : e < d => rest[e].live
        /\ containers' = IF r.raised = <<>> THEN [rest EXCEPT ![d] = LiveContainer(kind, r.out, "scalar", "E")] ELSE rest
        /\ nextError' = nextError + Pushes(script, Len(script))
        /\ discarded' = discarded \cup Lost(r.left, "panic")
        /\ Raise(r.raised)
        /\ last' = [op |-> "build", raised |-> r.raised, out |-> d, value |-> value,
                    arrived |-> [i \in 1..Len(script) |-> IF steps[i].do = "push_error" THEN <<steps[i].error>> ELSE CollectorErrors(steps[i].sub)]]
  /\ UNCHANGED <<sentinels, iter, delivered>>

\* Outcome::unwrap consumes self: its fields are dropped, on either path
OutcomeUnwrap(c) ==
  /\ ~panicking
  /\ containers[c].live
  /\ containers[c].kind = "Outcome"
  /\ LET r == Outcome_unwrap(containers[c].obj)
     IN /\ containers' = [containers EXCEPT ![c] = EmptyContainer]
        /\ discarded' = discarded \cup Lost(Range(containers[c].obj.errors), "panic")
        /\ Raise(r.raised)
        /\ last' = [op |-> "Outcome::unwrap", raised |-> r.raised, ok |-> r.ok, result |-> r.value, args |-> <<Deref(<<"container", c>>)>>]
  /\ UNCHANGED <<objects, sentinels, iter, nextError, delivered>>

OutcomeExpect(c, msg) ==
  /\ ~panicking
  /\ containers[c].live
  /\ containers[c].kind = "Outcome"
  /\ LET r == Outcome_expect(containers[c].obj, msg)
     IN /\ containers' = [containers EXCEPT ![c] = EmptyContainer]
        /\ discarded' = discarded \cup Lost(Range(containers[c].obj.errors), "panic")
        /\ Raise(r.raised)
        /\ last' = [op |-> "Outcome::expect", raised |-> r.raised, ok |-> r.ok, result |-> r.value, msg |-> msg, args |-> <<Deref(<<"container", c>>)>>]
  /\ UNCHANGED <<objects, sentinels, iter, nextError, delivered>>

\* Ok(value) leaves the sentinel slot alone; Err(sentinel) fills it
IntoResult(c, s) ==
  /\ ~panicking
  /\ containers[c].live
  /\ containers[c].kind = "Outcome"
  /\ FreeSentinel(s)
  /\ LET r == Outcome_into_result(containers[c].obj)
     IN /\ containers' = [containers EXCEPT ![c] = EmptyContainer]
        /\ sentinels' = IF r.ok THEN sentinels ELSE [sentinels EXCEPT ![s] = LiveSentinel(r.sentinel, containers[c].ety, "Outcome::into_result")]
        /\ last' = [op |-> "Outcome::into_result", raised |-> <<>>, ok |-> r.ok, result |-> r.value, s |-> s, args |-> <<Deref(<<"container", c>>)>>]
  /\ UNCHANGED <<objects, iter, panicking, panicLog, nextError, delivered, discarded>>

IntoErrors(c, s) ==
  /\ ~panicking
  /\ containers[c].live
  /\ containers[c].kind = "Outcome"
  /\ FreeSentinel(s)
  /\ containers' = [containers EXCEPT ![c] = EmptyContainer]
  /\ sentinels' = [sentinels EXCEPT ![s] = LiveSentinel(Outcome_into_errors(containers[c].obj), containers[c].ety, "Outcome::into_errors")]
  /\ last' = [op |-> "Outcome::into_errors", raised |-> <<>>, s |-> s, args |-> <<Deref(<<"container", c>>)>>]
  /\ UNCHANGED <<objects, iter, panicking, panicLog, nextError, delivered, discarded>>

\* A container goes out of scope: neither type implements Drop
DropContainer(c) ==
  /\ containers[c].live
  /\ LET raised == drop_in_place(containers[c].kind, containers[c].obj, panicking)
     IN /\ containers' = [containers EXCEPT ![c] = EmptyContainer]
        /\ discarded' = discarded \cup Lost(Range(containers[c].obj.errors), IF panicking \/ raised # <<>> THEN "panic" ELSE "container drop")
        /\ Raise(raised)
        /\ last' = [op |-> "drop container", raised |-> raised]
  /\ UNCHANGED <<objects, sentinels, iter, nextError, delivered>>

---------------------------------------------------------------------------
(* The specification *)

Next ==
  \/ \E s \in SentinelIds, n \in 0..MaxNewLen : SentinelNew(s, n)
  \/ \E s \in SentinelIds : SentinelNewEmpty(s)
  \/ \E s \in SentinelIds : SentinelNewOk(s)
  \/ \E s \in SentinelIds : SentinelPushError(s)
  \/ \E s \in SentinelIds : Peek(s)
  \/ \E s \in SentinelIds : Handle(s)
  \/ \E s \in SentinelIds : Ignore(s)
  \/ \E s \in SentinelIds : SafelyIgnore(s)
  \/ \E s \in SentinelIds : SentinelUnwrap(s)
  \/ \E s \in SentinelIds, msg \in Messages : SentinelExpect(s, msg)
  \/ \E s \in SentinelIds, ref \in CollectorRefs : SentinelPropagate(s, ref)
  \/ \E s \in SentinelIds, v \in Values, c \in ContainerIds : IntoFallible(s, v, c)
  \/ \E s \in SentinelIds : IntoErrorsIter(s)
  \/ \E s \in SentinelIds : DropSentinel(s)
  \/ IterNext
  \/ DropIter
  \/ \E k \in Kinds, c \in ContainerIds, v \in Values : New(k, c, v)
  \/ \E k \in Kinds, c \in ContainerIds, v \in Values, n \in 1..MaxNewLen : NewWithErrors(k, c, v, n)
  \/ \E c \in ContainerIds : PushError(c)
  \/ \E c \in ContainerIds, ref \in CollectorRefs : Propagate(c, ref)
  \/ \E c, d \in ContainerIds, f \in IntegrateFuncs : Integrate(c, d, f)
  \/ \E a, b \in ContainerIds : Zip(a, b)
  \/ \E c \in ContainerIds, f \in MapFuncs : Map(c, f)
  \/ \E c \in ContainerIds, f \in MapErrorsFuncs : MapErrors(c, f)
  \/ \E c \in ContainerIds, s \in SentinelIds : Finalize(c, s)
  \/ \E k \in Kinds, y \in ErrorTypes, n \in 0..NContainers, d \in ContainerIds : \E o \in Orders(n) : FromIter(k, y, o, d)
  \/ \E k \in Kinds, n \in 0..MaxNewLen, v \in Values, d \in ContainerIds : \E script \in [1..n -> BuildSteps] : Build(k, script, v, d)
  \/ \E c \in ContainerIds : OutcomeUnwrap(c)
  \/ \E c \in ContainerIds, msg \in Messages : OutcomeExpect(c, msg)
  \/ \E c \in ContainerIds, s \in SentinelIds : IntoResult(c, s)
  \/ \E c \in ContainerIds, s \in SentinelIds : IntoErrors(c, s)
  \/ \E c \in ContainerIds : DropContainer(c)

Spec == Init /\ [][Next]_vars

---------------------------------------------------------------------------
(* Claims *)

\* The panic raised last
LastPanic == panicLog[Len(panicLog)]

\* C1: an ErrorSentinel dropped with no disposal method called on it, while
\* the thread is not panicking, panics with the diagnostic "sentinel dropped
\* without handling errors", whatever its error list (the empty one too)
C1_DropUnhandledPanics ==
  (last.op = "drop ErrorSentinel" /\ ~last.pk) =>
    (panicking /\ panicLog = <<PanicSentinelDropped>>)

\* C1 witness: a sentinel with an empty error list was dropped and panicked
C1_Witness ==
  /\ last.op = "drop ErrorSentinel"
  /\ ~last.pk
  /\ last.self.obj.errors.vec = <<>>
  /\ panicLog = <<PanicSentinelDropped>>

\* C2: handle, ignore, propagate and into_fallible (any error list), and
\* unwrap and expect on an empty error list, raise no panic: not in the call
\* and not when the consumed sentinel is dropped at its end
C2_DisposalNeverPanics ==
  /\ last.op \in {"ErrorSentinel::handle", "ErrorSentinel::ignore", "ErrorSentinel::propagate", "ErrorSentinel::into_fallible"} =>
       (last.raised = <<>> /\ ~panicking /\ panicLog = <<>>)
  /\ (last.op \in {"ErrorSentinel::unwrap", "ErrorSentinel::expect"} /\ last.errors = <<>>) =>
       (last.raised = <<>> /\ ~panicking /\ panicLog = <<>>)

\* C2 witness: handle was called on a sentinel with two or more errors
C2_Witness ==
  /\ last.op = "ErrorSentinel::handle"
  /\ Len(last.calls[1]) >= 2
  /\ ~panicking

\* C3: peek returns the pending errors in order and leaves the sentinel as it
\* was (same error list, still unhandled); a sentinel that was peeked and is
\* then dropped still panics
C3_PeekChangesNothing ==
  /\ last.op = "ErrorSentinel::peek" =>
       /\ sentinels[last.s].live
       /\ sentinels[last.s].obj.errors = Some(last.result)
       /\ ~sentinels[last.s].obj.handled
       /\ ~panicking
  /\ (last.op = "drop ErrorSentinel" /\ last.self.peeked /\ ~last.pk) =>
       (panicking /\ LastPanic = PanicSentinelDropped)

\* C3 witness: a peeked sentinel with two or more errors was dropped
C3_Witness ==
  /\ last.op = "drop ErrorSentinel"
  /\ last.self.peeked
  /\ ~last.pk
  /\ Len(last.self.obj.errors.vec) >= 2
  /\ panicking

\* C4: an ErrorSentinelIter over N >= 1 errors, dropped while the thread is
\* not panicking, panics if fewer than N items were taken and does not if N
\* were; is_handled() holds exactly when no item remains
C4_PartialIterationPanics ==
  /\ (last.op = "drop ErrorSentinelIter" /\ ~last.pk /\ last.self.obj.original_len >= 1) =>
       /\ last.self.taken < last.self.obj.original_len =>
            (panicking /\ LastPanic.kind = PanicIterDropped(0, 0).kind)
       /\ last.self.taken = last.self.obj.original_len => ~panicking
  /\ iter.live =>
       (ErrorSentinelIter_is_handled(iter.obj) <=> iter.obj.original_len - iter.taken = 0)

\* C4 witness: an iterator was dropped after some, not all, of its items
C4_Witness ==
  /\ last.op = "drop ErrorSentinelIter"
  /\ ~last.pk
  /\ 0 < last.self.taken
  /\ last.self.taken < last.self.obj.original_len
  /\ panicking

\* C5: while the thread is panicking, the drop of an unhandled sentinel or of
\* an iterator with items left raises no second panic
C5_NoPanicWhileUnwinding ==
  /\ Len(panicLog) <= 1
  /\ (last.op \in {"drop ErrorSentinel", "drop ErrorSentinelIter"} /\ last.pk) =>
       last.raised = <<>>

\* C5 witness: an iterator with items left was dropped while the thread
\* unwound from the panic of an unhandled sentinel
C5_Witness ==
  /\ last.op = "drop ErrorSentinelIter"
  /\ last.pk
  /\ last.self.obj.iter # <<>>
  /\ panicLog = <<PanicSentinelDropped>>

\* Every error that a live sentinel, iterator or container holds
Held ==
  UNION {SentinelLeft(sentinels[s].obj) : s \in SentinelIds}
    \cup Range(iter.obj.iter)
    \cup UNION {Range(containers[c].obj.errors) : c \in ContainerIds}

\* Every error identity handed out so far
Created == 1..(nextError - 1)

DiscardedBy(how) == {Ident(x[1]) : x \in {y \in discarded : y[2] = how}}

\* C6 as stated: in a run without a panic and without an error discarded by
\* ignore or safely_ignore, every error ever created is still held or was
\* passed to a handle closure or yielded by an ErrorSentinelIter.
C6_OnlyIgnoreDiscards ==
  (panicLog = <<>> /\ DiscardedBy("ignore") = {}) =>
    \A e \in Created : e \in Idents(Held) \/ e \in Idents(delivered)

\* C6, amended: in a run without a panic every error ever created is still
\* held, or was passed to a handle closure or yielded by an ErrorSentinelIter,
\* or was discarded by ignore or safely_ignore, or was in a Fallible or Outcome
\* that went out of scope unfinalized; nothing else drops an error.
C6_OnlyIgnoreAndContainerDropDiscard ==
  panicLog = <<>> =>
    \A e \in Created :
      \/ e \in Idents(Held)
      \/ e \in Idents(delivered)
      \/ e \in DiscardedBy("ignore")
      \/ e \in DiscardedBy("container drop")

C6_Witness ==
  /\ panicLog = <<>>
  /\ last.op = "ErrorSentinel::handle"
  /\ delivered # {}
  /\ DiscardedBy("container drop") # {}
  /\ DiscardedBy("ignore") = {}

\* The error lists of the arguments of the last call, in argument order
InErrs == [i \in 1..Len(last.args) |-> CollectorErrors(last.args[i])]

\* The error list of the collector the last call wrote or produced
OutErrs ==
  CASE last.op \in {"propagate", "ErrorSentinel::propagate", "integrate"} -> CollectorErrors(Deref(last.dest))
    [] last.op \in {"zip", "from_iter", "ErrorSentinel::into_fallible"} -> containers[last.out].obj.errors
    [] last.op = "finalize" -> sentinels[last.s].obj.errors.vec

RECURSIVE SumLen(_)
SumLen(lists) == IF lists = <<>> THEN 0 ELSE Len(Head(lists)) + SumLen(Tail(lists))

MovingOps == {"propagate", "ErrorSentinel::propagate", "integrate", "zip", "from_iter", "ErrorSentinel::into_fallible", "finalize"}

\* C7: after propagate (from a container or a sentinel), integrate, zip,
\* from_iter, into_fallible and finalize the output holds exactly as many
\* errors as the inputs held together, and exactly those errors.
C7_ErrorCountConserved ==
  last.op \in MovingOps =>
    /\ Len(OutErrs) = SumLen(InErrs)
    /\ Range(OutErrs) = UNION {Range(InErrs[i]) : i \in DOMAIN InErrs}
    /\ Cardinality(Range(OutErrs)) = Len(OutErrs)

C7_Witness ==
  /\ last.op = "ErrorSentinel::propagate"
  /\ Len(InErrs[1]) = 2
  /\ Len(InErrs[2]) = 1
  /\ Len(OutErrs) = 3

\* C8: a.zip(b) has the value (a.value, b.value) and the errors of a, in
\* order, followed by the errors of b, in order.
C8_ZipPairsValuesAndChainsErrors ==
  last.op = "zip" =>
    LET a == last.args[1].obj
        b == last.args[2].obj
        z == containers[last.out].obj
    IN /\ z.value = <<a.value, b.value>>
       /\ Len(z.errors) = Len(a.errors) + Len(b.errors)
       /\ \A i \in 1..Len(a.errors) : z.errors[i] = a.errors[i]
       /\ \A j \in 1..Len(b.errors) : z.errors[Len(a.errors) + j] = b.errors[j]

C8_Witness ==
  /\ last.op = "zip"
  /\ last.args[1].obj.value # last.args[2].obj.value
  /\ Len(last.args[1].obj.errors) = 2
  /\ Len(last.args[2].obj.errors) = 1
  /\ Len(containers[last.out].obj.errors) = 3

\* The number of errors of the items before item i
RECURSIVE Offset(_, _)
Offset(items, i) == IF i <= 1 THEN 0 ELSE Offset(items, i - 1) + Len(items[i - 1].obj.errors)

\* C9: from_iter returns the items' values in index order and the items'
\* errors concatenated in index order; from no items it returns an empty
\* collection and no errors.
C9_FromIterKeepsIndexOrder ==
  last.op = "from_iter" =>
    LET items == last.args
        r == containers[last.out].obj
    IN /\ Len(r.value) = Len(items)
       /\ \A i \in 1..Len(items) : r.value[i] = items[i].obj.value
       /\ Len(r.errors) = Offset(items, Len(items) + 1)
       /\ \A i \in 1..Len(items) : \A j \in 1..Len(items[i].obj.errors) :
            r.errors[Offset(items, i) + j] = items[i].obj.errors[j]
       /\ (items = <<>> => r.value = <<>> /\ r.errors = <<>>)

C9_Witness ==
  /\ last.op = "from_iter"
  /\ Len(last.args) = 2
  /\ last.args[1].obj.value # last.args[2].obj.value
  /\ Len(last.args[1].obj.errors) = 2
  /\ Len(last.args[2].obj.errors) = 1
  /\ Len(containers[last.out].obj.value) = 2

\* C10: source.integrate(dest, f) calls f once, with dest's value and the
\* source's value, and leaves dest with its previous errors followed by the
\* source's errors.
C10_IntegrateAppliesOnceAndAppends ==
  last.op = "integrate" =>
    LET source == last.args[1].obj
        before == last.args[2].obj
        after == containers[last.dest[2]].obj
    IN /\ last.calls = <<<<before.value, source.value>>>>
       /\ after.value = ApplyIntegrate(last.func, before.value, source.value)
       /\ Len(after.errors) = Len(before.errors) + Len(source.errors)
       /\ \A i \in 1..Len(before.errors) : after.errors[i] = before.errors[i]
       /\ \A j \in 1..Len(source.errors) : after.errors[Len(before.errors) + j] = source.errors[j]

C10_Witness ==
  /\ last.op = "integrate"
  /\ last.func = "add"
  /\ Len(last.args[1].obj.errors) = 1
  /\ Len(last.args[2].obj.errors) = 2
  /\ containers[last.dest[2]].obj.value # last.args[2].obj.value

\* C11: propagate on a Fallible or Outcome returns the container's value and
\* leaves the destination, whichever ErrorCollector it is, with its previous
\* errors followed by the container's errors in their order.
C11_ContainerPropagateAppends ==
  last.op = "propagate" =>
    LET self == last.args[1].obj
        before == CollectorErrors(last.args[2])
        after == CollectorErrors(Deref(last.dest))
    IN /\ last.result = self.value
       /\ Len(after) = Len(before) + Len(self.errors)
       /\ \A i \in 1..Len(before) : after[i] = before[i]
       /\ \A j \in 1..Len(self.errors) : after[Len(before) + j] = self.errors[j]

C11_Witness ==
  /\ last.op = "propagate"
  /\ last.dest[1] = "sentinel"
  /\ Len(last.args[1].obj.errors) = 2
  /\ Len(CollectorErrors(last.args[2])) = 1
  /\ last.result = 1

\* C12: propagate on a sentinel leaves the collector with its previous errors
\* followed by the sentinel's errors in their order, and the sentinel, consumed
\* by the call, is dropped without a panic.
C12_SentinelPropagateAppendsAndDischarges ==
  last.op = "ErrorSentinel::propagate" =>
    LET self == last.args[1].obj
        before == CollectorErrors(last.args[2])
        after == CollectorErrors(Deref(last.dest))
    IN /\ last.raised = <<>>
       /\ ~panicking
       /\ panicLog = <<>>
       /\ Len(after) = Len(before) + Len(self.errors.vec)
       /\ \A i \in 1..Len(before) : after[i] = before[i]
       /\ \A j \in 1..Len(self.errors.vec) : after[Len(before) + j] = self.errors.vec[j]

C12_Witness ==
  /\ last.op = "ErrorSentinel::propagate"
  /\ last.dest[1] = "container"
  /\ Len(last.args[1].obj.errors.vec) = 2
  /\ Len(CollectorErrors(last.args[2])) = 1
  /\ ~panicking

\* C13: finalize returns the container's value and an unhandled sentinel that
\* holds the container's errors in the same order; that sentinel, dropped
\* outside unwinding without a disposal, panics, also when it holds no errors.
C13_FinalizeYieldsUnhandledSentinel ==
  /\ last.op = "finalize" =>
       LET self == last.args[1].obj
           sentinel == sentinels[last.s]
       IN /\ last.value = self.value
          /\ sentinel.live
          /\ sentinel.origin = "finalize"
          /\ sentinel.obj.errors.some
          /\ sentinel.obj.errors.vec = self.errors
          /\ ~sentinel.obj.handled
  /\ (last.op = "drop ErrorSentinel" /\ last.self.origin = "finalize" /\ ~last.pk) =>
       (panicking /\ LastPanic = PanicSentinelDropped)

C13_Witness ==
  /\ last.op = "drop ErrorSentinel"
  /\ last.self.origin = "finalize"
  /\ last.self.obj.errors.vec = <<>>
  /\ ~last.pk
  /\ panicking

\* C14: Outcome::unwrap and Outcome::expect return the value without a panic
\* when the Outcome holds no errors and panic when it holds one or more;
\* unwrap's panic carries the accumulated errors, expect's the caller's message.
C14_OutcomeUnwrapExpect ==
  last.op \in {"Outcome::unwrap", "Outcome::expect"} =>
    LET self == last.args[1].obj
    IN IF self.errors = <<>>
       THEN /\ last.raised = <<>>
            /\ ~panicking
            /\ last.ok
            /\ last.result = self.value
       ELSE /\ ~last.ok
            /\ panicking
            /\ Len(last.raised) = 1
            /\ panicLog = last.raised
            /\ last.op = "Outcome::unwrap" =>
                 /\ LastPanic.kind = PanicOutcomeUnwrap(<<>>).kind
                 /\ LastPanic.errors = self.errors
            /\ last.op = "Outcome::expect" =>
                 /\ LastPanic.kind = PanicExpect("").kind
                 /\ LastPanic.msg = last.msg

C14_Witness ==
  /\ last.op = "Outcome::expect"
  /\ Len(last.args[1].obj.errors) = 2
  /\ last.msg = "no errors expected"
  /\ panicking
  /\ LastPanic.msg = "no errors expected"

\* C15: Outcome::into_result never panics; it returns Ok(value) exactly when
\* the Outcome holds no errors and otherwise Err(sentinel) with an unhandled
\* sentinel that holds the Outcome's errors in order.
C15_IntoResult ==
  last.op = "Outcome::into_result" =>
    LET self == last.args[1].obj
        sentinel == sentinels[last.s]
    IN /\ last.raised = <<>>
       /\ ~panicking
       /\ last.ok <=> self.errors = <<>>
       /\ last.ok => (last.result = self.value /\ ~sentinel.live)
       /\ ~last.ok =>
            /\ sentinel.live
            /\ sentinel.origin = "Outcome::into_result"
            /\ sentinel.obj.errors.some
            /\ sentinel.obj.errors.vec = self.errors
            /\ ~sentinel.obj.handled

C15_Witness ==
  /\ last.op = "Outcome::into_result"
  /\ ~last.ok
  /\ Len(last.args[1].obj.errors) = 2
  /\ sentinels[last.s].live

\* C16: Outcome::into_errors returns an unhandled sentinel that holds the
\* Outcome's errors in order, for every Outcome; the sentinel made from an
\* Outcome without errors panics like any other when dropped undisposed.
C16_IntoErrors ==
  /\ last.op = "Outcome::into_errors" =>
       LET self == last.args[1].obj
           sentinel == sentinels[last.s]
       IN /\ last.raised = <<>>
          /\ sentinel.live
          /\ sentinel.origin = "Outcome::into_errors"
          /\ sentinel.obj.errors.some
          /\ sentinel.obj.errors.vec = self.errors
          /\ ~sentinel.obj.handled
  /\ (last.op = "drop ErrorSentinel" /\ last.self.origin = "Outcome::into_errors" /\ ~last.pk) =>
       (panicking /\ LastPanic = PanicSentinelDropped)

C16_Witness ==
  /\ last.op = "drop ErrorSentinel"
  /\ last.self.origin = "Outcome::into_errors"
  /\ last.self.obj.errors.vec = <<>>
  /\ ~last.pk
  /\ panicking

\* C17: ErrorSentinel::unwrap and ErrorSentinel::expect panic exactly when the
\* sentinel's list is not empty; with an empty list nothing happens and the
\* sentinel is dropped without a panic. unwrap's panic carries the errors,
\* expect's the caller's message.
C17_SentinelUnwrapExpect ==
  last.op \in {"ErrorSentinel::unwrap", "ErrorSentinel::expect"} =>
    IF last.errors = <<>>
    THEN /\ last.raised = <<>>
         /\ ~panicking
         /\ panicLog = <<>>
    ELSE /\ panicking
         /\ Len(last.raised) = 1
         /\ panicLog = last.raised
         /\ last.op = "ErrorSentinel::unwrap" =>
              /\ LastPanic.kind = PanicSentinelUnwrap(<<>>).kind
              /\ LastPanic.errors = last.errors
         /\ last.op = "ErrorSentinel::expect" =>
              /\ LastPanic.kind = PanicExpect("").kind
              /\ LastPanic.msg = last.msg

C17_Witness ==
  /\ last.op = "ErrorSentinel::unwrap"
  /\ Len(last.errors) = 2
  /\ panicking
  /\ LastPanic.errors = last.errors

\* The number of errors that arrived before arrival i
RECURSIVE ArrivedBefore(_, _)
ArrivedBefore(arrived, i) == IF i <= 1 THEN 0 ELSE ArrivedBefore(arrived, i - 1) + Len(arrived[i - 1])

\* C18: build returns a container whose value is the closure's return value
\* and whose errors are the errors the closure pushed or propagated into the
\* sentinel, in the order they arrived; build raises no panic.
C18_BuildCollectsInArrivalOrder ==
  last.op = "build" =>
    LET out == containers[last.out]
        n == Len(last.arrived)
    IN /\ last.raised = <<>>
       /\ ~panicking
       /\ out.live
       /\ out.obj.value = last.value
       /\ Len(out.obj.errors) = ArrivedBefore(last.arrived, n + 1)
       /\ \A i \in 1..n : \A j \in 1..Len(last.arrived[i]) :
            out.obj.errors[ArrivedBefore(last.arrived, i) + j] = last.arrived[i][j]

C18_Witness ==
  /\ last.op = "build"
  /\ Len(last.arrived) = 2
  /\ Len(last.arrived[1]) = 1
  /\ Len(last.arrived[2]) = 2
  /\ Len(containers[last.out].obj.errors) = 3
  /\ containers[last.out].kind = "Fallible"

\* C19: ErrorSentinel::handle calls the closure once, with the sentinel's
\* errors in their order, and returns what the closure returned; the sentinel
\* counts as handled whatever the closure does: its drop raises no panic.
C19_HandleCallsClosureOnce ==
  last.op = "ErrorSentinel::handle" =>
    /\ Len(last.calls) = 1
    /\ Len(last.calls[1]) = Len(last.errors)
    /\ \A i \in 1..Len(last.errors) : last.calls[1][i] = last.errors[i]
    /\ last.result = handler(last.calls[1])
    /\ Range(last.errors) \subseteq delivered
    /\ last.raised = <<>>
    /\ ~panicking

C19_Witness ==
  /\ last.op = "ErrorSentinel::handle"
  /\ Len(last.errors) = 3
  /\ last.calls[1][1] < last.calls[1][3]
  /\ last.result = 3

\* C20: an ErrorSentinelIter over the errors e1..eN yields e1..eN, each once
\* and in that order, and then None; after k items its len() is N - k.
C20_IterYieldsInOrder ==
  /\ iter.live =>
       /\ Len(iter.yielded) <= Len(iter.source)
       /\ \A i \in 1..Len(iter.yielded) : iter.yielded[i] = iter.source[i]
       /\ ErrorSentinelIter_len(iter.obj) = Len(iter.source) - Len(iter.yielded)
  /\ (last.op = "ErrorSentinelIter::next" /\ iter.live) =>
       IF last.item.some
       THEN iter.yielded # <<>> /\ last.item.val = iter.source[Len(iter.yielded)]
       ELSE Len(iter.yielded) = Len(iter.source)

C20_Witness ==
  /\ iter.live
  /\ last.op = "ErrorSentinelIter::next"
  /\ ~last.item.some
  /\ Len(iter.source) = 2
  /\ iter.yielded = iter.source
  /\ ErrorSentinelIter_len(iter.obj) = 0

\* C21: the panic of a dropped, non-exhausted ErrorSentinelIter reports the
\* number of errors not yet taken and the number of errors the sentinel had:
\* after k of N items, N - k out of N.
C21_IterDropReportsCounts ==
  (last.op = "drop ErrorSentinelIter" /\ last.raised # <<>>) =>
    /\ panicking
    /\ LastPanic.kind = PanicIterDropped(0, 0).kind
    /\ LastPanic.left = Len(last.self.source) - Len(last.self.yielded)
    /\ LastPanic.of = Len(last.self.source)
    /\ LastPanic.left > 0

C21_Witness ==
  /\ last.op = "drop ErrorSentinelIter"
  /\ Len(last.self.source) = 3
  /\ Len(last.self.yielded) = 1
  /\ panicking
  /\ LastPanic.left = 2
  /\ LastPanic.of = 3

\* C22: map applies the closure to the value and leaves the errors as they
\* were, element by element; with the identity closure the container that
\* comes out equals the one that went in.
C22_MapKeepsErrors ==
  last.op = "map" =>
    LET self == last.args[1].obj
        out == containers[last.out]
    IN /\ out.live
       /\ out.kind = last.args[1].kind
       /\ out.obj.value = ApplyMap(last.func, self.value)
       /\ Len(out.obj.errors) = Len(self.errors)
       /\ \A i \in 1..Len(self.errors) : out.obj.errors[i] = self.errors[i]
       /\ last.func = "identity" => out.obj = self

C22_Witness ==
  /\ last.op = "map"
  /\ last.func = "succ"
  /\ Len(last.args[1].obj.errors) = 2
  /\ containers[last.out].obj.value # last.args[1].obj.value
  /\ containers[last.out].obj.errors = last.args[1].obj.errors

\* C23: map_errors leaves the value as it was and yields as many errors as
\* went in, the i-th being the closure's result for the i-th input error on
\* the closure's i-th call; with the identity closure the container that comes
\* out equals the one that went in.
C23_MapErrorsElementwise ==
  last.op = "map_errors" =>
    LET self == last.args[1].obj
        out == containers[last.out]
    IN /\ out.live
       /\ out.kind = last.args[1].kind
       /\ out.obj.value = self.value
       /\ Len(out.obj.errors) = Len(self.errors)
       /\ \A i \in 1..Len(self.errors) : out.obj.errors[i] = ApplyMapErrors(last.func, self.errors[i], i - 1)
       /\ last.func = "identity" => out.obj = self

C23_Witness ==
  /\ last.op = "map_errors"
  /\ last.func = "tag"
  /\ Len(last.args[1].obj.errors) = 2
  /\ containers[last.out].obj.errors[2] = ApplyMapErrors("tag", last.args[1].obj.errors[2], 1)
  /\ containers[last.out].obj.errors[2] # ApplyMapErrors("tag", last.args[1].obj.errors[2], 0)

\* C24: into_fallible returns a Fallible with the given value and the
\* sentinel's errors in their order, and the sentinel is dropped without a
\* panic; a finalize of that Fallible right after returns the same value and a
\* sentinel with the same errors in the same order.
C24_IntoFallibleState ==
  last.op = "ErrorSentinel::into_fallible" =>
    LET self == last.args[1].obj
        out == containers[last.out]
    IN /\ last.raised = <<>>
       /\ ~panicking
       /\ out.live
       /\ out.kind = "Fallible"
       /\ out.obj.value = last.value
       /\ Len(out.obj.errors) = Len(self.errors.vec)
       /\ \A i \in 1..Len(self.errors.vec) : out.obj.errors[i] = self.errors.vec[i]

C24_ThenFinalize ==
  (/\ last.op = "ErrorSentinel::into_fallible"
   /\ last'.op = "finalize"
   /\ containers[last.out].live
   /\ ~containers'[last.out].live) =>
    /\ last'.value = last.value
    /\ sentinels'[last'.s].obj.errors.vec = last.args[1].obj.errors.vec
    /\ ~sentinels'[last'.s].obj.handled

C24_IntoFallible == []C24_IntoFallibleState /\ [][C24_ThenFinalize]_vars

C24_Witness ==
  /\ last.op = "ErrorSentinel::into_fallible"
  /\ Len(last.args[1].obj.errors.vec) = 3
  /\ containers[last.out].obj.errors = last.args[1].obj.errors.vec
  /\ containers[last.out].obj.value = 1

---------------------------------------------------------------------------
\* C25: push_error on any collector (Fallible, Outcome or ErrorSentinel)
\* succeeds without a panic and appends: the collector then holds one more
\* error, the pushed error is the last one, the errors it held before are in
\* their places, and every other field (the value, the handled flag) is as
\* before.
C25_PushErrorAppends ==
  last.op \in {"push_error", "ErrorSentinel::push_error"} =>
    LET pre == last.args[1]
        post == Deref(last.dest)
        before == CollectorErrors(pre)
        after == CollectorErrors(post)
    IN /\ last.raised = <<>>
       /\ ~panicking
       /\ RefLive(last.dest)
       /\ post.kind = pre.kind
       /\ Len(after) = Len(before) + 1
       /\ after[Len(after)] = last.error
       /\ \A i \in 1..Len(before) : after[i] = before[i]
       /\ IF pre.kind = "ErrorSentinel"
          THEN post.obj.handled = pre.obj.handled /\ post.obj.errors.some
          ELSE post.obj.value = pre.obj.value

C25_Witness ==
  /\ last.op = "push_error"
  /\ last.args[1].kind = "Fallible"
  /\ Len(last.args[1].obj.errors) = 2
  /\ Len(Deref(last.dest).obj.errors) = 3
  /\ Deref(last.dest).obj.errors[3] = last.error

---------------------------------------------------------------------------
\* C26: for every Fallible and Outcome that exists, is_success() is true
\* exactly when len_errors() is 0 and has_errors() is the negation of
\* is_success(); the container new(value) returns has the value and no
\* errors, and the one new_with_errors(value, errors) returns has the value
\* and exactly the given errors in the given order.
C26_Accessors ==
  \A c \in ContainerIds : containers[c].live =>
    LET self == containers[c].obj
    IN IF containers[c].kind = "Fallible"
       THEN /\ Fallible_len_errors(self) = Len(self.errors)
            /\ Fallible_is_success(self) = (Fallible_len_errors(self) = 0)
            /\ Fallible_has_errors(self) = ~Fallible_is_success(self)
       ELSE /\ Outcome_len_errors(self) = Len(self.errors)
            /\ Outcome_is_success(self) = (Outcome_len_errors(self) = 0)
            /\ Outcome_has_errors(self) = ~Outcome_is_success(self)

C26_Constructors ==
  /\ last.op = "new" =>
       /\ containers[last.out].live /\ containers[last.out].kind = last.kind
       /\ containers[last.out].obj.value = last.value
       /\ containers[last.out].obj.errors = <<>>
       /\ IF last.kind = "Fallible"
          THEN Fallible_len_errors(containers[last.out].obj) = 0 /\ Fallible_is_success(containers[last.out].obj)
          ELSE Outcome_len_errors(containers[last.out].obj) = 0 /\ Outcome_is_success(containers[last.out].obj)
  /\ last.op = "new_with_errors" =>
       /\ containers[last.out].live /\ containers[last.out].kind = last.kind
       /\ containers[last.out].obj.value = last.value
       /\ containers[last.out].obj.errors = last.errors
       /\ IF last.kind = "Fallible"
          THEN Fallible_len_errors(containers[last.out].obj) = Len(last.errors)
          ELSE Outcome_len_errors(containers[last.out].obj) = Len(last.errors)

C26_SuccessIffNoErrors == C26_Accessors /\ C26_Constructors

\* An Outcome with exactly one error (has_errors, not is_success) next to a
\* container fresh from new_with_errors with two errors
C26_Witness ==
  /\ \E c \in ContainerIds : /\ containers[c].live /\ containers[c].kind = "Outcome"
                              /\ Len(containers[c].obj.errors) = 1
                              /\ Outcome_has_errors(containers[c].obj)
                              /\ ~Outcome_is_success(containers[c].obj)
  /\ last.op = "new_with_errors" /\ Len(last.errors) = 2
  /\ containers[last.out].obj.errors = last.errors

---------------------------------------------------------------------------
\* C27: the life of a sentinel is Unhandled, then Handled, and nothing else.
\* A sentinel a caller holds is Unhandled and has its error list. Each of
\* handle, ignore, safely_ignore, unwrap, expect, propagate, into_fallible
\* and into_errors_iter sets handled and consumes exactly one sentinel, whose
\* own destructor then raises nothing; so no second disposal can be applied
\* to it. No step changes the flag of a sentinel that stays, a sentinel only
\* goes away in a disposal or by being dropped, and once it is gone nothing
\* is left of its error list in its place; after into_errors_iter the list
\* is in the iterator.
DisposalOps ==
  {"ErrorSentinel::handle", "ErrorSentinel::ignore", "ErrorSentinel::safely_ignore", "ErrorSentinel::unwrap",
   "ErrorSentinel::expect", "ErrorSentinel::propagate", "ErrorSentinel::into_fallible", "ErrorSentinel::into_errors_iter"}

C27_HeldIsUnhandled ==
  \A s \in SentinelIds :
    IF sentinels[s].live
    THEN ~sentinels[s].obj.handled /\ sentinels[s].obj.errors.some
    ELSE sentinels[s] = EmptySentinel

C27_DisposalSetsHandled ==
  last.op \in DisposalOps =>
    /\ last.handled
    /\ \A i \in 1..Len(last.raised) : last.raised[i] # PanicSentinelDropped

C27_Step ==
  /\ \A s \in SentinelIds :
       /\ (sentinels[s].live /\ sentinels'[s].live) => sentinels'[s].obj.handled = sentinels[s].obj.handled
       /\ (sentinels[s].live /\ ~sentinels'[s].live) =>
            /\ last'.op \in DisposalOps \cup {"drop ErrorSentinel"}
            /\ sentinels'[s] = EmptySentinel
  /\ last'.op \in DisposalOps =>
       Cardinality({s \in SentinelIds : sentinels[s].live /\ ~sentinels'[s].live}) = 1
  /\ last'.op = "ErrorSentinel::into_errors_iter" =>
       \E s \in SentinelIds : /\ sentinels[s].live /\ ~sentinels'[s].live
                               /\ iter'.obj.iter = sentinels[s].obj.errors.vec

C27_Lifecycle == []C27_HeldIsUnhandled /\ []C27_DisposalSetsHandled /\ [][C27_Step]_vars

\* ignore has just consumed a sentinel of two errors while another sentinel
\* is held
C27_Witness ==
  /\ last.op = "ErrorSentinel::ignore" /\ last.handled /\ last.raised = <<>>
  /\ \E x \in discarded : x[2] = "ignore"
  /\ Cardinality({x \in discarded : x[2] = "ignore"}) = 2
  /\ \E s \in SentinelIds : sentinels[s].live /\ ~sentinels[s].obj.handled

---------------------------------------------------------------------------
\* C28: into_errors_iter marks the sentinel it is called on handled, so the
\* destructor of that sentinel raises nothing, and moves the whole error list
\* into the iterator it returns: the iterator holds the errors of the
\* sentinel in their order, its original_len is the number of errors the
\* sentinel had when it was converted, and the obligation is now on the
\* iterator, whose destructor would panic exactly when that list is not
\* empty, reporting all of them as left.
C28_IntoErrorsIterTransfers ==
  last.op = "ErrorSentinel::into_errors_iter" =>
    LET self == last.args[1].obj
        n == Len(self.errors.vec)
    IN /\ ~self.handled
       /\ last.handled
       /\ last.raised = <<>>
       /\ ~panicking
       /\ iter.live
       /\ iter.obj.iter = self.errors.vec
       /\ iter.obj.original_len = n
       /\ ErrorSentinelIter_len(iter.obj) = n
       /\ ErrorSentinelIter_drop(iter.obj, FALSE) = IF n > 0 THEN <<PanicIterDropped(n, n)>> ELSE <<>>

C28_Witness ==
  /\ last.op = "ErrorSentinel::into_errors_iter"
  /\ Len(last.args[1].obj.errors.vec) = 2
  /\ iter.obj.original_len = 2
  /\ iter.obj.iter = last.args[1].obj.errors.vec
  /\ last.raised = <<>>

---------------------------------------------------------------------------
\* C29: an iterator made by into_errors_iter from a sentinel without errors
\* and dropped with no item ever taken from it does not panic, while the
\* same sentinel dropped as it is, with no disposal method called, panics.
C29_EmptyIterDropIsSilent ==
  (/\ last.op = "drop ErrorSentinelIter" /\ ~last.pk
   /\ last.self.source = <<>> /\ last.self.taken = 0) =>
    last.raised = <<>> /\ ~panicking

C29_EmptySentinelDropPanics ==
  (/\ last.op = "drop ErrorSentinel" /\ ~last.pk
   /\ last.self.obj.errors.vec = <<>>) =>
    last.raised = <<PanicSentinelDropped>> /\ panicking

\* Both ways applied to one and the same sentinel
C29_SameSentinel ==
  \A s \in SentinelIds :
    (sentinels[s].live /\ sentinels[s].obj.errors.vec = <<>>) =>
      LET r == ErrorSentinel_into_errors_iter(sentinels[s].obj)
      IN /\ ErrorSentinel_drop(sentinels[s].obj, FALSE) = <<PanicSentinelDropped>>
         /\ ErrorSentinel_drop(r.self, FALSE) = <<>>
         /\ ErrorSentinelIter_drop(r.iter, FALSE) = <<>>

C29_ZeroErrorIterVersusSentinel ==
  C29_EmptyIterDropIsSilent /\ C29_EmptySentinelDropPanics /\ C29_SameSentinel

\* The iterator of an empty sentinel was dropped untouched in silence while
\* another empty sentinel, made by new_empty, is still held
C29_Witness ==
  /\ last.op = "drop ErrorSentinelIter" /\ ~last.pk
  /\ last.self.source = <<>> /\ last.self.taken = 0 /\ last.self.obj.original_len = 0
  /\ last.raised = <<>> /\ ~panicking
  /\ \E s \in SentinelIds : /\ sentinels[s].live /\ sentinels[s].obj.errors.vec = <<>>
                              /\ sentinels[s].origin = "ErrorSentinel::new_empty"

---------------------------------------------------------------------------
\* C30: receiving errors never discharges a sentinel. After push_error on a
\* sentinel, and after a container or another sentinel propagated into it,
\* the sentinel is held, Unhandled, and its destructor would panic; and a
\* sentinel that began empty (new_empty) and was dropped with errors in it,
\* all of which it must have received, with no disposal method called and
\* the thread not unwinding, did panic.
C30_Receiving ==
  \/ last.op = "ErrorSentinel::push_error"
  \/ last.op \in {"propagate", "ErrorSentinel::propagate"} /\ last.dest[1] = "sentinel"

C30_StillUnhandled ==
  C30_Receiving =>
    LET before == last.args[Len(last.args)]
        after == sentinels[last.dest[2]]
    IN /\ after.live
       /\ ~after.obj.handled
       /\ after.obj.handled = before.obj.handled
       /\ Len(after.obj.errors.vec) >= Len(before.obj.errors.vec)
       /\ ErrorSentinel_drop(after.obj, FALSE) = <<PanicSentinelDropped>>

C30_DropAfterReceivingPanics ==
  (/\ last.op = "drop ErrorSentinel" /\ ~last.pk
   /\ last.self.origin = "ErrorSentinel::new_empty"
   /\ last.self.obj.errors.vec # <<>>) =>
    last.raised = <<PanicSentinelDropped>> /\ panicking

C30_ReceivingNeverDischarges == C30_StillUnhandled /\ C30_DropAfterReceivingPanics

\* A sentinel from new_empty that received two errors was dropped and panicked
C30_Witness ==
  /\ last.op = "drop ErrorSentinel" /\ ~last.pk
  /\ last.self.origin = "ErrorSentinel::new_empty"
  /\ Len(last.self.obj.errors.vec) = 2
  /\ last.raised = <<PanicSentinelDropped>>
  /\ panicking

---------------------------------------------------------------------------
\* C31: one sentinel raises at most one panic. unwrap and expect set handled
\* before they test the list, so when they panic because there are errors
\* the sentinel is already Handled: the call raises its own panic and nothing
\* else, and the destructor of the sentinel, run while the thread unwinds,
\* would raise nothing even if it did not ask whether the thread is
\* panicking.
C31_OnePanicPerSentinel ==
  last.op \in {"ErrorSentinel::unwrap", "ErrorSentinel::expect"} =>
    /\ last.handled
    /\ Len(last.raised) <= 1
    /\ \A i \in 1..Len(last.raised) : last.raised[i] # PanicSentinelDropped
    /\ last.errors = <<>> => last.raised = <<>> /\ ~panicking
    /\ last.errors # <<>> =>
         /\ last.raised = <<IF last.op = "ErrorSentinel::unwrap" THEN PanicSentinelUnwrap(last.errors) ELSE PanicExpect(last.msg)>>
         /\ panicking
         /\ panicLog = last.raised
         /\ ErrorSentinel_drop([errors |-> None, handled |-> last.handled], FALSE) = <<>>

C31_Witness ==
  /\ last.op = "ErrorSentinel::expect"
  /\ Len(last.errors) = 2
  /\ last.handled
  /\ panicking
  /\ panicLog = <<PanicExpect(last.msg)>>

---------------------------------------------------------------------------
\* C32: a Fallible or an Outcome carries no obligation before it is
\* finalized. Dropping one that holds errors, with finalize, into_result and
\* into_errors never called on it, raises no panic: every container that
\* exists can be dropped in silence, whether the thread unwinds or not, and
\* every step in which a container goes out of scope removes that container,
\* touches no sentinel, and leaves the panic state of the thread as it was.
C32_DropIsSilent ==
  \A c \in ContainerIds : containers[c].live =>
    /\ drop_in_place(containers[c].kind, containers[c].obj, FALSE) = <<>>
    /\ drop_in_place(containers[c].kind, containers[c].obj, TRUE) = <<>>

C32_AfterDrop == last.op = "drop container" => last.raised = <<>>

C32_DropStep ==
  last'.op = "drop container" =>
    /\ panicking' = panicking
    /\ panicLog' = panicLog
    /\ sentinels' = sentinels
    /\ Cardinality({c \in ContainerIds : containers[c].live /\ ~containers'[c].live}) = 1
    /\ \A c \in ContainerIds : containers'[c] # containers[c] => containers'[c] = EmptyContainer

C32_ContainerDropNeverPanics == []C32_DropIsSilent /\ []C32_AfterDrop /\ [][C32_DropStep]_vars

\* A container with two errors has just gone out of scope, no panic anywhere
C32_Witness ==
  /\ last.op = "drop container"
  /\ last.raised = <<>>
  /\ ~panicking /\ panicLog = <<>>
  /\ Cardinality(DiscardedBy("container drop")) = 2
  /\ \A c \in ContainerIds : ~containers[c].live
  /\ \A s \in SentinelIds : ~sentinels[s].live
  /\ objects = 1

===========================================================================
